---- MODULE Spec2Model ----
(***************************************************************************)
(* Domain layer of opensase-ecommerce: the Order, Cart and Product         *)
(* aggregates with the Money and Quantity value objects and the domain     *)
(* events they raise.                                                      *)
(*                                                                         *)
(* Every aggregate operation is a pure operator on the aggregate record    *)
(* (named after the Rust method it is translated from) and an action      *)
(* Call... that applies it to the current instance with inputs drawn from  *)
(* small sets.  Aggregates never call each other, so a behaviour works on  *)
(* one aggregate instance, named by agg; the other two do not exist in it. *)
(* Decimal amounts are integers (minor units).  Fields no operation reads  *)
(* or writes after construction (names, descriptions, addresses, notes,    *)
(* customer and session ids, tags, images, variants) are left out.         *)
(***************************************************************************)
EXTENDS Integers, Sequences, FiniteSets, TLC

\* ------------------------------------------------------------------ bounds
\* Stand-in for u32::MAX (2^32 - 1 is beyond TLC's integers): quantities
\* range over 0..MaxU32 and u32 arithmetic is modulo MaxU32 + 1.
MaxU32 == 3
\* Largest reading of the wall clock (Utc::now()).
MaxClock == 1
\* Largest number of line items an Order is given.
MaxItems == 2
\* Largest number of events an aggregate's buffer holds before it is drained.
MaxEvents == 2
\* Largest amount of a Money operand handed to Money::add.
MaxAmount == 2
\* Stand-in for the longest Sku, 50 (raw inputs are up to two longer).
MaxSkuLen == 2

VARIABLES
    agg,            \* which aggregate this behaviour works on, or which value object
                    \* ("money", "quantity", "sku") when it works on none
    order,          \* the Order instance   (agg = "order")
    cart,           \* the Cart instance    (agg = "cart")
    product,        \* the Product instance (agg = "product")
    overflow_checks,\* the build traps integer overflow (debug profile) or wraps (release)
    op,             \* the operation called last
    arg,            \* its argument (NoArg when it takes none)
    res,            \* its outcome: "Ok" or the error variant
    ret,            \* the value the call returned (take_events and the value objects'
                    \* methods; empty for the others)
    pending,        \* history: the events raised since the last take_events(), in order
    path,           \* history: progress along create, add_item+, confirm, mark_paid, ship, deliver
    was_delivered   \* history: the order's status has been Delivered at some point

vars == <<agg, order, cart, product, overflow_checks, op, arg, res, ret, pending, path, was_delivered>>

NoArg == [none |-> TRUE]
\* The value of an aggregate variable in a behaviour that works on another one.
Absent == [absent |-> TRUE]

\* ------------------------------------------------------------ value objects
\* --------------------------------------------------------------------- Sku
\* A string is the sequence of its chars.  The chars a raw input is made of:
\* white space, a lower-case and an upper-case ASCII letter, and a letter
\* outside ASCII.
SkuChars == {" ", "a", "Z", "é"}

char_is_whitespace(ch) == ch = " "

\* char::to_uppercase
char_to_uppercase(ch) ==
    IF ch = "a" THEN "A" ELSE IF ch = "é" THEN "É" ELSE ch

\* char::len_utf8: the bytes the char takes in a String
char_len_utf8(ch) == IF ch \in {"é", "É"} THEN 2 ELSE 1

RECURSIVE str_trim_start(_)
str_trim_start(s) ==
    IF s # <<>> /\ char_is_whitespace(Head(s)) THEN str_trim_start(Tail(s)) ELSE s

RECURSIVE str_trim_end(_)
str_trim_end(s) ==
    IF s # <<>> /\ char_is_whitespace(s[Len(s)])
    THEN str_trim_end(SubSeq(s, 1, Len(s) - 1)) ELSE s

\* str::trim
str_trim(s) == str_trim_end(str_trim_start(s))

\* str::to_uppercase
str_to_uppercase(s) == [i \in 1..Len(s) |-> char_to_uppercase(s[i])]

\* String::len: the length in bytes
RECURSIVE String_len(_)
String_len(s) == IF s = <<>> THEN 0 ELSE char_len_utf8(Head(s)) + String_len(Tail(s))

\* Result<Sku, SkuError>
Sku_new(raw) ==
    LET value == str_to_uppercase(str_trim(raw))
    IN  IF value = <<>> THEN [ok |-> FALSE, err |-> "Empty"]
        ELSE IF String_len(value) > MaxSkuLen THEN [ok |-> FALSE, err |-> "TooLong"]
        ELSE [ok |-> TRUE, val |-> value]

\* Money { amount, currency }
Money_new(amount, currency) == [amount |-> amount, currency |-> currency]

Money_zero(currency) == Money_new(0, currency)

\* Variant: the currencies are not compared.
Money_add_any_currency(a, b) ==
    [ok |-> TRUE, val |-> Money_new(a.amount + b.amount, a.currency)]

\* Result<Money, MoneyError>
Money_add(a, b) ==
    IF a.currency # b.currency
    THEN [ok |-> FALSE, err |-> "CurrencyMismatch"]
    ELSE [ok |-> TRUE, val |-> Money_new(a.amount + b.amount, a.currency)]

Money_multiply(m, qty) == Money_new(m.amount * qty, m.currency)

\* Result::unwrap_or
unwrap_or(r, default) == IF r.ok THEN r.val ELSE default

\* ------------------------------------------------------------------ inputs
Currencies == {"USD", "EUR"}
ProductIds == {"P1", "P2"}
OrderIds == {"o-1"}
ProductUuids == {"p-1"}
ProductNames == {"", "P"}
Skus == {"TEST"}
Prices == {Money_new(10, "USD"), Money_new(12, "USD")}
NoVariant == "none"
U32 == 0..MaxU32
\* The quantities a caller passes: none, one, and the largest u32.
Quantities == {0, 1, MaxU32}

\* ------------------------------------------------------------------ events
OrderEvent_Confirmed(order_id, total) ==
    [kind |-> "Order", type |-> "Confirmed", order_id |-> order_id, total |-> total]

OrderEvent_Cancelled(order_id) ==
    [kind |-> "Order", type |-> "Cancelled", order_id |-> order_id]

ProductEvent_Created(product_id, sku) ==
    [kind |-> "Product", type |-> "Created", product_id |-> product_id, sku |-> sku]

ProductEvent_InventoryAdded(product_id, quantity) ==
    [kind |-> "Product", type |-> "InventoryAdded", product_id |-> product_id,
     quantity |-> quantity]

\* ---------------------------------------------------------------- Quantity
\* Quantity(u32) is modelled by its value.
\* Variant: plain addition, nothing stops at the maximum.
Quantity_add_unchecked(v, other) == v + other

\* self.0.saturating_add(other)
Quantity_add(v, other) == IF v + other > MaxU32 THEN MaxU32 ELSE v + other

\* Variant: taking more than there is leaves zero.
Quantity_subtract_clamps(v, other) ==
    IF other > v THEN [some |-> TRUE, val |-> 0] ELSE [some |-> TRUE, val |-> v - other]

\* Option<Quantity>
Quantity_subtract(v, other) ==
    IF other > v THEN [some |-> FALSE] ELSE [some |-> TRUE, val |-> v - other]

Quantity_is_zero(v) == v = 0

\* ------------------------------------------------------------------- Order
\* The line items a caller hands to Order::add_item.  total is a field the
\* caller fills in; nothing ties it to quantity and unit_price.  (id, name
\* and sku are carried along untouched and are left out.)
LineItemShapes ==
    { <<"P1", 2, Money_new(10, "USD"), Money_new(20, "USD")>>,
      <<"P1", 1, Money_new(10, "USD"), Money_new(5, "USD")>>,
      <<"P2", 1, Money_new(7, "EUR"), Money_new(7, "EUR")>> }

LineItems ==
    { [product_id |-> s[1], quantity |-> s[2], unit_price |-> s[3], total |-> s[4]] :
        s \in LineItemShapes }

Order_create(id, currency, t) ==
    [ id |-> id,
      status |-> "Pending", fulfillment |-> "Unfulfilled", payment |-> "Pending",
      items |-> <<>>,
      subtotal |-> Money_zero(currency), shipping |-> Money_zero(currency),
      tax |-> Money_zero(currency), discount |-> Money_zero(currency),
      total |-> Money_zero(currency),
      created_at |-> t, updated_at |-> t,
      events |-> <<>> ]

Order_touch(o, t) == [o EXCEPT !.updated_at = t]

Order_raise_event(o, e) == [o EXCEPT !.events = Append(@, e)]

\* items.iter().fold(acc, |acc, i| acc.add(&i.total).unwrap_or(acc))
RECURSIVE Order_fold(_, _)
Order_fold(items, acc) ==
    IF items = <<>> THEN acc
    ELSE Order_fold(Tail(items), unwrap_or(Money_add(acc, Head(items).total), acc))

\* Variant: total is computed from the subtotal the order held before the fold.
Order_recalculate_stale(o, t) ==
    LET subtotal == Order_fold(o.items, Money_zero(o.subtotal.currency))
        total1 == unwrap_or(Money_add(o.subtotal, o.shipping), o.subtotal)
        total2 == unwrap_or(Money_add(total1, o.tax), total1)
    IN  Order_touch([o EXCEPT !.subtotal = subtotal, !.total = total2], t)

Order_recalculate(o, t) ==
    LET subtotal == Order_fold(o.items, Money_zero(o.subtotal.currency))
        total1 == unwrap_or(Money_add(subtotal, o.shipping), subtotal)
        total2 == unwrap_or(Money_add(total1, o.tax), total1)
    IN  Order_touch([o EXCEPT !.subtotal = subtotal, !.total = total2], t)

\* Variant: a line of a product the order already holds is not added again.
Order_add_item_once(o, item, t) ==
    IF \E i \in DOMAIN o.items : o.items[i].product_id = item.product_id
    THEN Order_recalculate(o, t)
    ELSE Order_recalculate([o EXCEPT !.items = Append(@, item)], t)

Order_add_item(o, item, t) ==
    Order_recalculate([o EXCEPT !.items = Append(@, item)], t)

\* Variant: the status is advanced before the items are looked at.
Order_confirm_eager(o, t) ==
    IF o.items = <<>>
    THEN [res |-> "NoItems", o |-> [o EXCEPT !.status = "Confirmed"]]
    ELSE [res |-> "Ok",
          o |-> Order_raise_event(
                    Order_touch([o EXCEPT !.status = "Confirmed"], t),
                    OrderEvent_Confirmed(o.id, o.total.amount))]

\* Variant: the Confirmed event is not raised.
Order_confirm_silent(o, t) ==
    IF o.items = <<>>
    THEN [res |-> "NoItems", o |-> o]
    ELSE [res |-> "Ok", o |-> Order_touch([o EXCEPT !.status = "Confirmed"], t)]

\* Each fallible operation yields the outcome and the instance after the call.
Order_confirm(o, t) ==
    IF o.items = <<>>
    THEN [res |-> "NoItems", o |-> o]
    ELSE [res |-> "Ok",
          o |-> Order_raise_event(
                    Order_touch([o EXCEPT !.status = "Confirmed"], t),
                    OrderEvent_Confirmed(o.id, o.total.amount))]

\* Variant: the payment is recorded and the status left alone.
Order_mark_paid_keeps_status(o, t) == Order_touch([o EXCEPT !.payment = "Paid"], t)

Order_mark_paid(o, t) ==
    Order_touch([o EXCEPT !.payment = "Paid", !.status = "Processing"], t)

\* Variant: only an order being processed is shipped.
Order_ship_guarded(o, t) ==
    IF o.status = "Processing"
    THEN Order_touch([o EXCEPT !.status = "Shipped", !.fulfillment = "Fulfilled"], t)
    ELSE o

Order_ship(o, t) ==
    Order_touch([o EXCEPT !.status = "Shipped", !.fulfillment = "Fulfilled"], t)

\* Variant: delivery is announced with an event.
Order_deliver_announces(o, t) ==
    Order_raise_event(
        Order_touch([o EXCEPT !.status = "Delivered"], t),
        [kind |-> "Order", type |-> "Delivered", order_id |-> o.id])

Order_deliver(o, t) == Order_touch([o EXCEPT !.status = "Delivered"], t)

\* Variant: the Delivered guard is missing.
Order_cancel_unguarded(o, t) ==
    [res |-> "Ok",
     o |-> Order_raise_event(
               Order_touch([o EXCEPT !.status = "Cancelled"], t),
               OrderEvent_Cancelled(o.id))]

\* Variant: the refusal is reported after the timestamp was refreshed.
Order_cancel_touches(o, t) ==
    IF o.status = "Delivered"
    THEN [res |-> "CannotCancel", o |-> Order_touch(o, t)]
    ELSE [res |-> "Ok",
          o |-> Order_raise_event(
                    Order_touch([o EXCEPT !.status = "Cancelled"], t),
                    OrderEvent_Cancelled(o.id))]

\* Variant: cancelling voids the payment.
Order_cancel_voids(o, t) ==
    IF o.status = "Delivered"
    THEN [res |-> "CannotCancel", o |-> o]
    ELSE [res |-> "Ok",
          o |-> Order_raise_event(
                    Order_touch([o EXCEPT !.status = "Cancelled", !.payment = "Voided"], t),
                    OrderEvent_Cancelled(o.id))]

\* Variant: cancelling a paid order marks the payment refunded.
Order_cancel_refunds(o, t) ==
    IF o.status = "Delivered"
    THEN [res |-> "CannotCancel", o |-> o]
    ELSE [res |-> "Ok",
          o |-> Order_raise_event(
                    Order_touch(
                        [o EXCEPT !.status = "Cancelled",
                                  !.payment = IF @ = "Paid" THEN "Refunded" ELSE @], t),
                    OrderEvent_Cancelled(o.id))]

Order_cancel(o, t) ==
    IF o.status = "Delivered"
    THEN [res |-> "CannotCancel", o |-> o]
    ELSE [res |-> "Ok",
          o |-> Order_raise_event(
                    Order_touch([o EXCEPT !.status = "Cancelled"], t),
                    OrderEvent_Cancelled(o.id))]

\* Variant: the buffer is emptied and nothing is returned.
Order_take_events_drops(o) == [ret |-> <<>>, o |-> [o EXCEPT !.events = <<>>]]

\* std::mem::take(&mut self.events)
Order_take_events(o) == [ret |-> o.events, o |-> [o EXCEPT !.events = <<>>]]

\* -------------------------------------------------------------------- Cart
\* The items a caller hands to Cart::add_item: two variants of one product
\* priced in USD and a product priced in EUR.
CartItemShapes ==
    { <<"P1", NoVariant, Money_new(10, "USD")>>,
      <<"P1", "V1", Money_new(10, "USD")>>,
      <<"P2", NoVariant, Money_new(7, "EUR")>> }

CartItems ==
    { [product_id |-> s[1], variant_id |-> s[2], quantity |-> q, unit_price |-> s[3]] :
        s \in CartItemShapes, q \in Quantities }

\* Iterator::find yields the first match: the least of the matching indices,
\* 0 when there is none.
FirstIndex(S) == IF S = {} THEN 0 ELSE CHOOSE i \in S : \A j \in S : i <= j

\* find(|i| i.product_id == item.product_id && i.variant_id == item.variant_id)
Cart_find_line(items, product_id, variant_id) ==
    FirstIndex({ i \in 1..Len(items) : /\ items[i].product_id = product_id
                                        /\ items[i].variant_id = variant_id })

\* find(|i| i.product_id == product_id)
Cart_find_product(items, product_id) ==
    FirstIndex({ i \in 1..Len(items) : items[i].product_id = product_id })

CartItem_line_total(i) == Money_multiply(i.unit_price, i.quantity)

\* created_at and updated_at are two readings of the clock.
Cart_new(currency, t0, t1) ==
    [ items |-> <<>>, subtotal |-> Money_zero(currency), currency |-> currency,
      created_at |-> t0, updated_at |-> t1 ]

\* items.iter().fold(acc, |acc, i| acc.add(&i.line_total()).unwrap_or(acc))
RECURSIVE Cart_fold(_, _)
Cart_fold(items, acc) ==
    IF items = <<>> THEN acc
    ELSE Cart_fold(Tail(items),
                   unwrap_or(Money_add(acc, CartItem_line_total(Head(items))), acc))

Cart_recalculate(c, t) ==
    [c EXCEPT !.subtotal = Cart_fold(c.items, Money_zero(c.currency)),
              !.updated_at = t]

\* existing.quantity += item.quantity is u32 arithmetic: past the maximum it
\* aborts the call in a build with overflow checks and wraps in one without.
\* Variant: the item always becomes a new line.
Cart_add_item_appends(c, item, t, checks) ==
    [res |-> "Ok", c |-> Cart_recalculate([c EXCEPT !.items = Append(@, item)], t)]

Cart_add_item(c, item, t, checks) ==
    LET i == Cart_find_line(c.items, item.product_id, item.variant_id)
    IN  IF i # 0
        THEN LET sum == c.items[i].quantity + item.quantity
             IN  IF sum > MaxU32 /\ checks
                 THEN [res |-> "Panic", c |-> c]
                 ELSE [res |-> "Ok",
                       c |-> Cart_recalculate(
                                 [c EXCEPT !.items[i].quantity = sum % (MaxU32 + 1)], t)]
        ELSE [res |-> "Ok", c |-> Cart_recalculate([c EXCEPT !.items = Append(@, item)], t)]

\* Variant: quantity zero is stored on the line instead of removing it.
Cart_update_quantity_keeps_zero(c, product_id, quantity, t) ==
    LET i == Cart_find_product(c.items, product_id)
    IN  IF i = 0 THEN [res |-> "ItemNotFound", c |-> c]
        ELSE [res |-> "Ok",
              c |-> Cart_recalculate([c EXCEPT !.items[i].quantity = quantity], t)]

\* Variant: a call that finds no line still stamps the cart.
Cart_update_quantity_stamps(c, product_id, quantity, t) ==
    LET i == Cart_find_product(c.items, product_id)
    IN  IF i = 0 THEN [res |-> "ItemNotFound", c |-> Cart_recalculate(c, t)]
        ELSE IF quantity = 0
        THEN [res |-> "Ok",
              c |-> Cart_recalculate(
                        [c EXCEPT !.items = SelectSeq(@, LAMBDA x : x.product_id # product_id)],
                        t)]
        ELSE [res |-> "Ok",
              c |-> Cart_recalculate([c EXCEPT !.items[i].quantity = quantity], t)]

\* Variant: every line of the product gets the quantity.
Cart_update_quantity_all_variants(c, product_id, quantity, t) ==
    LET i == Cart_find_product(c.items, product_id)
    IN  IF i = 0 THEN [res |-> "ItemNotFound", c |-> c]
        ELSE IF quantity = 0
        THEN [res |-> "Ok",
              c |-> Cart_recalculate(
                        [c EXCEPT !.items = SelectSeq(@, LAMBDA x : x.product_id # product_id)],
                        t)]
        ELSE [res |-> "Ok",
              c |-> Cart_recalculate(
                        [c EXCEPT !.items =
                            [k \in DOMAIN @ |->
                                IF @[k].product_id = product_id
                                THEN [@[k] EXCEPT !.quantity = quantity] ELSE @[k]]],
                        t)]

\* Variant: the quantity is replaced and the subtotal is not rebuilt.
Cart_update_quantity_stale(c, product_id, quantity, t) ==
    LET i == Cart_find_product(c.items, product_id)
    IN  IF i = 0 THEN [res |-> "ItemNotFound", c |-> c]
        ELSE IF quantity = 0
        THEN [res |-> "Ok",
              c |-> Cart_recalculate(
                        [c EXCEPT !.items = SelectSeq(@, LAMBDA x : x.product_id # product_id)],
                        t)]
        ELSE [res |-> "Ok", c |-> [c EXCEPT !.items[i].quantity = quantity]]

Cart_update_quantity(c, product_id, quantity, t) ==
    LET i == Cart_find_product(c.items, product_id)
    IN  IF i = 0 THEN [res |-> "ItemNotFound", c |-> c]
        ELSE IF quantity = 0
        THEN [res |-> "Ok",
              c |-> Cart_recalculate(
                        [c EXCEPT !.items = SelectSeq(@, LAMBDA x : x.product_id # product_id)],
                        t)]
        ELSE [res |-> "Ok",
              c |-> Cart_recalculate([c EXCEPT !.items[i].quantity = quantity], t)]

\* Variant: only the first line of the product is dropped.
Cart_remove_item_first(c, product_id, t) ==
    LET i == Cart_find_product(c.items, product_id)
    IN  IF i = 0 THEN [res |-> "ItemNotFound", c |-> c]
        ELSE [res |-> "Ok",
              c |-> Cart_recalculate(
                        [c EXCEPT !.items = SubSeq(@, 1, i - 1) \o SubSeq(@, i + 1, Len(@))],
                        t)]

Cart_remove_item(c, product_id, t) ==
    LET kept == SelectSeq(c.items, LAMBDA x : x.product_id # product_id)
    IN  IF Len(kept) = Len(c.items)
        THEN [res |-> "ItemNotFound", c |-> [c EXCEPT !.items = kept]]
        ELSE [res |-> "Ok", c |-> Cart_recalculate([c EXCEPT !.items = kept], t)]

Cart_clear(c, t) == Cart_recalculate([c EXCEPT !.items = <<>>], t)

\* ----------------------------------------------------------------- Product
Product_touch(p, t) == [p EXCEPT !.updated_at = t]

Product_raise_event(p, e) == [p EXCEPT !.events = Append(@, e)]

Product_create(id, sku, name, price, t) ==
    Product_raise_event(
        [ id |-> id, sku |-> sku, name |-> name, price |-> price,
          inventory |-> 0, status |-> "Draft",
          created_at |-> t, updated_at |-> t, events |-> <<>> ],
        ProductEvent_Created(id, sku))

Product_is_in_stock(p) == ~Quantity_is_zero(p.inventory)

\* Variant: an archived product stays archived.
Product_publish_not_archived(p, t) ==
    IF p.name = ""
    THEN [res |-> "MissingName", p |-> p]
    ELSE [res |-> "Ok",
          p |-> Product_touch(
                    [p EXCEPT !.status = IF @ = "Archived" THEN @ ELSE "Active"], t)]

Product_publish(p, t) ==
    IF p.name = ""
    THEN [res |-> "MissingName", p |-> p]
    ELSE [res |-> "Ok", p |-> Product_touch([p EXCEPT !.status = "Active"], t)]

Product_archive(p, t) == Product_touch([p EXCEPT !.status = "Archived"], t)

Product_update_price(p, new_price, t) == Product_touch([p EXCEPT !.price = new_price], t)

\* Variant: the event reports the stock level reached, not the amount asked.
Product_add_inventory_reports_level(p, qty, t) ==
    Product_raise_event(
        Product_touch([p EXCEPT !.inventory = Quantity_add(p.inventory, qty)], t),
        ProductEvent_InventoryAdded(p.id, Quantity_add(p.inventory, qty)))

Product_add_inventory(p, qty, t) ==
    Product_raise_event(
        Product_touch([p EXCEPT !.inventory = Quantity_add(p.inventory, qty)], t),
        ProductEvent_InventoryAdded(p.id, qty))

\* Variant: stock is clamped at zero instead of the call being refused.
Product_remove_inventory_clamps(p, qty, t) ==
    LET r == Quantity_subtract(p.inventory, qty)
    IN  IF ~r.some
        THEN [res |-> "InsufficientInventory", p |-> [p EXCEPT !.inventory = 0]]
        ELSE [res |-> "Ok", p |-> Product_touch([p EXCEPT !.inventory = r.val], t)]

\* self.inventory.subtract(qty).ok_or(InsufficientInventory)? leaves before
\* the assignment when subtract yields nothing.
Product_remove_inventory(p, qty, t) ==
    LET r == Quantity_subtract(p.inventory, qty)
    IN  IF ~r.some
        THEN [res |-> "InsufficientInventory", p |-> p]
        ELSE [res |-> "Ok", p |-> Product_touch([p EXCEPT !.inventory = r.val], t)]

\* std::mem::take(&mut self.events)
Product_take_events(p) == [ret |-> p.events, p |-> [p EXCEPT !.events = <<>>]]

\* ----------------------------------------------------------------- history
\* Utc::now() never runs backwards: a reading is the last one or later.  The
\* last reading an aggregate took is the one it keeps in updated_at.
Readings(last) == { t \in {last, last + 1} : t <= MaxClock }

\* Events the call added to the buffer (empty when it added none).
Added(before, after) == SubSeq(after, Len(before) + 1, Len(after))

\* Progress along the one scenario create, add_item (one or more), confirm,
\* mark_paid, ship, deliver; any other mutating call leaves it for good.
PathNext(p, o, r) ==
    CASE r # "Ok" -> p
      [] o = "take_events" -> p
      [] o = "add_item" /\ p \in {"created", "items"} -> "items"
      [] o = "confirm" /\ p = "items" -> "confirmed"
      [] o = "mark_paid" /\ p = "confirmed" -> "paid"
      [] o = "ship" /\ p = "paid" -> "shipped"
      [] o = "deliver" /\ p = "shipped" -> "delivered"
      [] OTHER -> "off"

\* What every Order call does to the bookkeeping, given the call's name,
\* argument and outcome and the instance it leaves.
OrderStep(o, a, r, after) ==
    /\ order' = after
    /\ op' = o /\ arg' = a /\ res' = r
    /\ ret' = <<>>
    /\ pending' = pending \o Added(order.events, after.events)
    /\ path' = PathNext(path, o, r)
    /\ was_delivered' = (was_delivered \/ after.status = "Delivered")
    /\ UNCHANGED <<agg, cart, product, overflow_checks>>

\* ----------------------------------------------------------- Order actions
CallOrderAddItem ==
    /\ agg = "order"
    /\ Len(order.items) < MaxItems
    /\ \E item \in LineItems, t \in Readings(order.updated_at) :
          OrderStep("add_item", item, "Ok", Order_add_item(order, item, t))

CallOrderConfirm ==
    /\ agg = "order"
    /\ Len(order.events) < MaxEvents
    /\ \E t \in Readings(order.updated_at) :
          LET r == Order_confirm(order, t)
          IN  OrderStep("confirm", NoArg, r.res, r.o)

CallOrderMarkPaid ==
    /\ agg = "order"
    /\ \E t \in Readings(order.updated_at) :
          OrderStep("mark_paid", NoArg, "Ok", Order_mark_paid(order, t))

CallOrderShip ==
    /\ agg = "order"
    /\ \E t \in Readings(order.updated_at) :
          OrderStep("ship", NoArg, "Ok", Order_ship(order, t))

CallOrderDeliver ==
    /\ agg = "order"
    /\ \E t \in Readings(order.updated_at) :
          OrderStep("deliver", NoArg, "Ok", Order_deliver(order, t))

CallOrderCancel ==
    /\ agg = "order"
    /\ Len(order.events) < MaxEvents
    /\ \E t \in Readings(order.updated_at) :
          LET r == Order_cancel(order, t)
          IN  OrderStep("cancel", NoArg, r.res, r.o)

CallOrderTakeEvents ==
    /\ agg = "order"
    /\ LET r == Order_take_events(order)
       IN  /\ order' = r.o
           /\ ret' = r.ret
           /\ pending' = <<>>
           /\ op' = "take_events" /\ arg' = NoArg /\ res' = "Ok"
           /\ UNCHANGED <<agg, cart, product, overflow_checks, path, was_delivered>>

\* ------------------------------------------------------------ Cart actions
\* A call that aborted (res = "Panic") ends the behaviour.
CartStep(o, a, r, after) ==
    /\ cart' = after
    /\ op' = o /\ arg' = a /\ res' = r
    /\ UNCHANGED <<agg, order, product, overflow_checks, ret, pending, path, was_delivered>>

CallCartAddItem ==
    /\ agg = "cart"
    /\ res # "Panic"
    /\ \E item \in CartItems, t \in Readings(cart.updated_at) :
          LET r == Cart_add_item(cart, item, t, overflow_checks)
          IN  CartStep("add_item", item, r.res, r.c)

CallCartUpdateQuantity ==
    /\ agg = "cart"
    /\ res # "Panic"
    /\ \E p \in ProductIds, q \in Quantities, t \in Readings(cart.updated_at) :
          LET r == Cart_update_quantity(cart, p, q, t)
          IN  CartStep("update_quantity", [product_id |-> p, quantity |-> q], r.res, r.c)

CallCartRemoveItem ==
    /\ agg = "cart"
    /\ res # "Panic"
    /\ \E p \in ProductIds, t \in Readings(cart.updated_at) :
          LET r == Cart_remove_item(cart, p, t)
          IN  CartStep("remove_item", [product_id |-> p], r.res, r.c)

CallCartClear ==
    /\ agg = "cart"
    /\ res # "Panic"
    /\ \E t \in Readings(cart.updated_at) :
          CartStep("clear", NoArg, "Ok", Cart_clear(cart, t))

\* --------------------------------------------------------- Product actions
ProductStep(o, a, r, after) ==
    /\ product' = after
    /\ op' = o /\ arg' = a /\ res' = r
    /\ ret' = <<>>
    /\ pending' = pending \o Added(product.events, after.events)
    /\ UNCHANGED <<agg, order, cart, overflow_checks, path, was_delivered>>

CallProductPublish ==
    /\ agg = "product"
    /\ \E t \in Readings(product.updated_at) :
          LET r == Product_publish(product, t)
          IN  ProductStep("publish", NoArg, r.res, r.p)

CallProductArchive ==
    /\ agg = "product"
    /\ \E t \in Readings(product.updated_at) :
          ProductStep("archive", NoArg, "Ok", Product_archive(product, t))

CallProductUpdatePrice ==
    /\ agg = "product"
    /\ \E m \in Prices, t \in Readings(product.updated_at) :
          ProductStep("update_price", [new_price |-> m], "Ok",
                      Product_update_price(product, m, t))

CallProductAddInventory ==
    /\ agg = "product"
    /\ Len(product.events) < MaxEvents
    /\ \E q \in Quantities, t \in Readings(product.updated_at) :
          ProductStep("add_inventory", [qty |-> q], "Ok",
                      Product_add_inventory(product, q, t))

CallProductRemoveInventory ==
    /\ agg = "product"
    /\ \E q \in Quantities, t \in Readings(product.updated_at) :
          LET r == Product_remove_inventory(product, q, t)
          IN  ProductStep("remove_inventory", [qty |-> q], r.res, r.p)

CallProductTakeEvents ==
    /\ agg = "product"
    /\ LET r == Product_take_events(product)
       IN  /\ product' = r.p
           /\ ret' = r.ret
           /\ pending' = <<>>
           /\ op' = "take_events" /\ arg' = NoArg /\ res' = "Ok"
           /\ UNCHANGED <<agg, order, cart, overflow_checks, path, was_delivered>>

\* ------------------------------------------------------------ specification
InitOrder ==
    /\ agg = "order"
    /\ \E id \in OrderIds, c \in Currencies : order = Order_create(id, c, 0)
    /\ cart = Absent /\ product = Absent
    /\ overflow_checks = FALSE      \* Order does no machine-integer arithmetic
    /\ op = "create" /\ arg = NoArg /\ res = "Ok"
    /\ ret = <<>> /\ pending = <<>>
    /\ path = "created"
    /\ was_delivered = FALSE

NextOrder ==
    \/ CallOrderAddItem
    \/ CallOrderConfirm
    \/ CallOrderMarkPaid
    \/ CallOrderShip
    \/ CallOrderDeliver
    \/ CallOrderCancel
    \/ CallOrderTakeEvents

SpecOrder == InitOrder /\ [][NextOrder]_vars

InitCart ==
    /\ agg = "cart"
    /\ \E c \in Currencies, t1 \in {t \in 0..1 : t <= MaxClock} : cart = Cart_new(c, 0, t1)
    /\ order = Absent /\ product = Absent
    /\ overflow_checks \in BOOLEAN
    /\ op = "new" /\ arg = NoArg /\ res = "Ok"
    /\ ret = <<>> /\ pending = <<>>
    /\ path = "none"
    /\ was_delivered = FALSE

NextCart ==
    \/ CallCartAddItem
    \/ CallCartUpdateQuantity
    \/ CallCartRemoveItem
    \/ CallCartClear

SpecCart == InitCart /\ [][NextCart]_vars

InitProduct ==
    /\ agg = "product"
    /\ \E id \in ProductUuids, sku \in Skus, name \in ProductNames, price \in Prices :
          product = Product_create(id, sku, name, price, 0)
    /\ order = Absent /\ cart = Absent
    /\ overflow_checks = FALSE      \* Quantity saturates or refuses: nothing overflows
    /\ op = "create" /\ arg = NoArg /\ res = "Ok"
    /\ ret = <<>> /\ pending = product.events
    /\ path = "none"
    /\ was_delivered = FALSE

NextProduct ==
    \/ CallProductPublish
    \/ CallProductArchive
    \/ CallProductUpdatePrice
    \/ CallProductAddInventory
    \/ CallProductRemoveInventory
    \/ CallProductTakeEvents

SpecProduct == InitProduct /\ [][NextProduct]_vars

\* A behaviour of any one aggregate.
Init == InitOrder \/ InitCart \/ InitProduct

Next == NextOrder \/ NextCart \/ NextProduct

Spec == Init /\ [][Next]_vars

\* The aggregates that keep an event buffer.
InitEvents == InitOrder \/ InitProduct

NextEvents == NextOrder \/ NextProduct

SpecEvents == InitEvents /\ [][NextEvents]_vars

\* ------------------------------------------------------------ Money values
\* Decimal is signed; amounts are whole units here.
Amounts == (0 - 1)..MaxAmount

Moneys == { Money_new(n, c) : n \in Amounts, c \in Currencies }

\* Two Money values held by a caller; arg keeps both operands.
InitMoney ==
    /\ agg = "money"
    /\ \E a \in Moneys, b \in Moneys : arg = [a |-> a, b |-> b]
    /\ order = Absent /\ cart = Absent /\ product = Absent
    /\ overflow_checks = FALSE
    /\ op = "new" /\ res = "Ok"
    /\ ret = <<>> /\ pending = <<>>
    /\ path = "none"
    /\ was_delivered = FALSE

\* a.add(&b): both operands are borrowed immutably, the result is a new value.
CallMoneyAdd ==
    /\ agg = "money"
    /\ op = "new"
    /\ LET r == Money_add(arg.a, arg.b)
       IN  /\ op' = "add"
           /\ ret' = r
           /\ res' = (IF r.ok THEN "Ok" ELSE r.err)
    /\ UNCHANGED <<agg, order, cart, product, overflow_checks, arg, pending, path,
                   was_delivered>>

NextMoney == CallMoneyAdd

SpecMoney == InitMoney /\ [][NextMoney]_vars

\* --------------------------------------------------------- Quantity values
\* A Quantity(v) held by a caller and the u32 handed to add or subtract.
InitQuantity ==
    /\ agg = "quantity"
    /\ \E v \in U32, n \in U32 : arg = [v |-> v, n |-> n]
    /\ order = Absent /\ cart = Absent /\ product = Absent
    /\ overflow_checks = FALSE      \* saturating_add and the guarded minus never overflow
    /\ op = "new" /\ res = "Ok"
    /\ ret = <<>> /\ pending = <<>>
    /\ path = "none"
    /\ was_delivered = FALSE

\* Both methods take &self and build a new Quantity.
QuantityStep(o, r) ==
    /\ op' = o
    /\ ret' = r
    /\ UNCHANGED <<agg, order, cart, product, overflow_checks, arg, res, pending, path,
                   was_delivered>>

CallQuantityAdd ==
    /\ agg = "quantity"
    /\ op = "new"
    /\ QuantityStep("add", [val |-> Quantity_add(arg.v, arg.n)])

CallQuantitySubtract ==
    /\ agg = "quantity"
    /\ op = "new"
    /\ QuantityStep("subtract", Quantity_subtract(arg.v, arg.n))

\* -------------------------------------------------------------- Sku values
\* The raw strings a caller hands to Sku::new.
RawStrings == UNION { [1..k -> SkuChars] : k \in 0..(MaxSkuLen + 2) }

InitSku ==
    /\ agg = "sku"
    /\ \E raw \in RawStrings : arg = [value |-> raw]
    /\ order = Absent /\ cart = Absent /\ product = Absent
    /\ overflow_checks = FALSE
    /\ op = "raw" /\ res = "Ok"
    /\ ret = <<>> /\ pending = <<>>
    /\ path = "none"
    /\ was_delivered = FALSE

CallSkuNew ==
    /\ agg = "sku"
    /\ op = "raw"
    /\ LET r == Sku_new(arg.value)
       IN  /\ op' = "new"
           /\ ret' = r
           /\ res' = (IF r.ok THEN "Ok" ELSE r.err)
    /\ UNCHANGED <<agg, order, cart, product, overflow_checks, arg, pending, path,
                   was_delivered>>

\* ------------------------------------------------------------------------
\* A behaviour of any one value object.
InitValues == InitMoney \/ InitQuantity \/ InitSku

NextValues ==
    \/ CallMoneyAdd
    \/ CallQuantityAdd
    \/ CallQuantitySubtract
    \/ CallSkuNew

SpecValues == InitValues /\ [][NextValues]_vars

\* ================================================================== claims
\* Sum of the total fields of the line items whose total is in currency c.
RECURSIVE SumLineTotals(_, _)
SumLineTotals(items, c) ==
    IF items = <<>> THEN 0
    ELSE (IF Head(items).total.currency = c THEN Head(items).total.amount ELSE 0)
         + SumLineTotals(Tail(items), c)

\* Sum of unit price x quantity over all lines, whatever their currency.
RECURSIVE SumAllLines(_)
SumAllLines(items) ==
    IF items = <<>> THEN 0
    ELSE Head(items).unit_price.amount * Head(items).quantity + SumAllLines(Tail(items))

\* Sum of unit price x quantity over the lines priced in currency c.
RECURSIVE SumLinesIn(_, _)
SumLinesIn(items, c) ==
    IF items = <<>> THEN 0
    ELSE (IF Head(items).unit_price.currency = c
          THEN Head(items).unit_price.amount * Head(items).quantity
          ELSE 0)
         + SumLinesIn(Tail(items), c)

\* Sum of the total fields of all line items, whatever their currency.
RECURSIVE SumAllTotals(_)
SumAllTotals(items) ==
    IF items = <<>> THEN 0 ELSE Head(items).total.amount + SumAllTotals(Tail(items))

\* The event buffer of the aggregate the behaviour works on.
Buffer == IF agg = "order" THEN order.events ELSE product.events

\* C1 as stated: once an Order's status has been Delivered, no sequence of
\* Order operations brings its status to Cancelled.
C1_DeliveredNeverCancelled ==
    (agg = "order" /\ was_delivered) => order.status # "Cancelled"

\* C1 as amended: while an Order's status is Delivered, no single Order
\* operation brings it to Cancelled (cancel() is refused, every other operation
\* sets another status or none).
C1_NoCancelWhileDelivered ==
    [][(agg = "order" /\ order.status = "Delivered") => order'.status # "Cancelled"]_vars

C1_Witness ==
    /\ agg = "order" /\ was_delivered /\ order.status = "Delivered"
    /\ op = "cancel" /\ res = "CannotCancel"

\* C2 as stated: in every reachable state of a Cart, subtotal is the sum over
\* all lines of unit price x quantity, in the cart's currency.
C2_SubtotalIsSumOfAllLines ==
    agg = "cart" => cart.subtotal = Money_new(SumAllLines(cart.items), cart.currency)

\* C2 as amended: in every reachable state of a Cart, subtotal is in the
\* cart's currency and is the sum of unit price x quantity over the lines
\* priced in that currency; a line priced in another currency adds nothing.
C2_SubtotalIsSumOfOwnCurrencyLines ==
    agg = "cart" =>
        cart.subtotal = Money_new(SumLinesIn(cart.items, cart.currency), cart.currency)

\* three lines, one of them priced in another currency, after a quantity update
C2_Witness ==
    /\ agg = "cart" /\ op = "update_quantity" /\ res = "Ok"
    /\ Len(cart.items) = 3
    /\ cart.subtotal.amount > 0
    /\ \E i \in 1..Len(cart.items) :
          cart.items[i].unit_price.currency # cart.currency /\ cart.items[i].quantity > 0

\* C3: in every reachable state of an Order, total is subtotal + shipping + tax
\* in the order's currency; discount is not subtracted.
C3_TotalIsSubtotalShippingTax ==
    agg = "order" =>
        order.total = Money_new(order.subtotal.amount + order.shipping.amount
                                    + order.tax.amount,
                                order.subtotal.currency)

C3_Witness ==
    /\ agg = "order" /\ op = "add_item" /\ Len(order.items) = 2
    /\ order.total.amount > 0
    /\ order.total.amount = order.subtotal.amount

\* C4: cancel() on an Order whose status is Delivered fails with CannotCancel
\* and leaves every field of the order, the event buffer included, as it was.
C4_CancelDeliveredChangesNothing ==
    [][(agg = "order" /\ op' = "cancel" /\ order.status = "Delivered")
          => (res' = "CannotCancel" /\ order' = order)]_vars

C4_Witness ==
    /\ agg = "order" /\ op = "cancel" /\ res = "CannotCancel"
    /\ order.status = "Delivered" /\ order.payment = "Paid"
    /\ order.items # <<>> /\ order.events # <<>>

\* C5: cancel() on an Order in any status but Delivered (Cancelled included)
\* succeeds, sets status Cancelled, appends exactly one Cancelled event with
\* the order's id and leaves payment and fulfillment as they were.
C5_CancelSucceedsUnlessDelivered ==
    [][(agg = "order" /\ op' = "cancel" /\ order.status # "Delivered")
          => /\ res' = "Ok"
             /\ order'.status = "Cancelled"
             /\ order'.events = Append(order.events, OrderEvent_Cancelled(order.id))
             /\ order'.payment = order.payment
             /\ order'.fulfillment = order.fulfillment]_vars

\* cancelled twice in a row, after payment and shipment
C5_Witness ==
    /\ agg = "order" /\ op = "cancel" /\ res = "Ok"
    /\ order.status = "Cancelled"
    /\ order.payment = "Paid" /\ order.fulfillment = "Fulfilled"
    /\ order.events = <<OrderEvent_Cancelled(order.id), OrderEvent_Cancelled(order.id)>>

\* C6: confirm() on an Order with no line items fails with NoItems and leaves
\* every field of the order (status, totals, event buffer) as it was.
C6_ConfirmEmptyChangesNothing ==
    [][(agg = "order" /\ op' = "confirm" /\ order.items = <<>>)
          => (res' = "NoItems" /\ order' = order)]_vars

C6_Witness ==
    /\ agg = "order" /\ op = "confirm" /\ res = "NoItems"
    /\ path = "created" /\ order.status = "Pending" /\ order.events = <<>>

\* C7: confirm() on an Order with at least one line item succeeds, sets status
\* Confirmed and appends exactly one Confirmed event carrying the order's id
\* and its total at the call, which is the sum add_item accumulated: the line
\* totals in the order's currency.
C7_ConfirmRaisesTotal ==
    [][(agg = "order" /\ op' = "confirm" /\ order.items # <<>>)
          => /\ res' = "Ok"
             /\ order'.status = "Confirmed"
             /\ order'.events =
                    Append(order.events, OrderEvent_Confirmed(order.id, order.total.amount))
             /\ order'.total = order.total
             /\ order.total.amount = SumLineTotals(order.items, order.total.currency)]_vars

C7_Witness ==
    /\ agg = "order" /\ op = "confirm" /\ res = "Ok"
    /\ Len(order.items) = 2 /\ order.status = "Confirmed"
    /\ order.events = <<OrderEvent_Confirmed(order.id, 25)>>

\* C8: from a new Order (Pending, Unfulfilled, payment Pending) given at least
\* one line item, confirm, mark_paid, ship, deliver take the status through
\* Confirmed, Processing, Shipped, Delivered, with payment Paid from mark_paid
\* on and fulfillment Fulfilled from ship on.
C8_HappyPath ==
    agg = "order" =>
        LET is(s, f, p) == /\ order.status = s
                           /\ order.fulfillment = f
                           /\ order.payment = p
        IN  /\ path = "created" => is("Pending", "Unfulfilled", "Pending")
            /\ path = "items" => is("Pending", "Unfulfilled", "Pending")
            /\ path = "confirmed" => is("Confirmed", "Unfulfilled", "Pending")
            /\ path = "paid" => is("Processing", "Unfulfilled", "Paid")
            /\ path = "shipped" => is("Shipped", "Fulfilled", "Paid")
            /\ path = "delivered" => is("Delivered", "Fulfilled", "Paid")

C8_Witness ==
    agg = "order" /\ path = "delivered" /\ op = "deliver" /\ order.items # <<>>

\* C9: for an Order or a Product, the buffer always holds exactly the events
\* raised since the last take_events(), in the order they were raised, and
\* take_events() returns exactly those and leaves the buffer empty: no event
\* is lost or returned twice, and a take_events() with nothing raised since
\* the previous one returns the empty list.
C9_EventsDrainedExactlyOnce ==
    [][/\ Buffer' = pending'
       /\ op' = "take_events" => (ret' = pending /\ Buffer' = <<>>)]_vars

C9_Witness ==
    /\ agg = "order" /\ op = "take_events"
    /\ ret = <<OrderEvent_Confirmed(order.id, 20), OrderEvent_Cancelled(order.id)>>
    /\ order.events = <<>>

\* C10: remove_inventory(qty) with qty above the inventory fails with
\* InsufficientInventory and leaves inventory, status and the event buffer as
\* they were; otherwise it succeeds and inventory is the old value minus qty.
C10_RemoveInventory ==
    [][(agg = "product" /\ op' = "remove_inventory")
          => IF arg'.qty > product.inventory
             THEN /\ res' = "InsufficientInventory"
                  /\ product'.inventory = product.inventory
                  /\ product'.status = product.status
                  /\ product'.events = product.events
             ELSE /\ res' = "Ok"
                  /\ product'.inventory = product.inventory - arg'.qty]_vars

C10_Witness ==
    /\ agg = "product" /\ op = "remove_inventory" /\ res = "InsufficientInventory"
    /\ arg.qty = MaxU32 /\ product.inventory = 2
    /\ product.status = "Active" /\ product.events # <<>>

\* C11: in every reachable state of a Product, inventory is never negative and
\* never above the u32 maximum, and is_in_stock() is true exactly when
\* inventory is greater than zero.
C11_InventoryInRange ==
    agg = "product" =>
        /\ product.inventory \in 0..MaxU32
        /\ Product_is_in_stock(product) <=> product.inventory > 0

\* one more unit added to a full inventory
C11_Witness ==
    /\ agg = "product" /\ op = "add_inventory" /\ arg.qty = 1
    /\ product.inventory = MaxU32
    /\ product.events = <<ProductEvent_InventoryAdded(product.id, MaxU32),
                          ProductEvent_InventoryAdded(product.id, 1)>>

\* C12: Cart.add_item(item) on a cart that already has a line with the same
\* product id and the same variant id leaves the number of lines unchanged and
\* sets that line's quantity to its old quantity plus item.quantity; on a cart
\* without such a line it appends the item as a new last line.
C12_AddItemMergesOrAppends ==
    [][(agg = "cart" /\ op' = "add_item")
          => LET i == Cart_find_line(cart.items, arg'.product_id, arg'.variant_id)
             IN  IF i # 0
                 THEN /\ res' = "Ok"
                      /\ Len(cart'.items) = Len(cart.items)
                      /\ cart'.items[i].quantity = cart.items[i].quantity + arg'.quantity
                 ELSE /\ res' = "Ok"
                      /\ cart'.items = Append(cart.items, arg')]_vars

\* C13: Cart.update_quantity(p, 0) on a cart that has a line with product id p
\* succeeds and removes the line entirely: afterwards no line has product id p,
\* the lines with other product ids are unchanged and keep their order, and
\* the subtotal is recomputed.
C13_UpdateQuantityZeroRemoves ==
    [][(/\ agg = "cart" /\ op' = "update_quantity" /\ arg'.quantity = 0
        /\ Cart_find_product(cart.items, arg'.product_id) # 0)
          => /\ res' = "Ok"
             /\ \A i \in DOMAIN cart'.items : cart'.items[i].product_id # arg'.product_id
             /\ cart'.items = SelectSeq(cart.items, LAMBDA x : x.product_id # arg'.product_id)
             /\ cart'.subtotal = Money_new(SumLinesIn(cart'.items, cart.currency), cart.currency)]_vars

\* a line of another product survives the removal
C13_Witness ==
    /\ agg = "cart" /\ op = "update_quantity" /\ res = "Ok"
    /\ arg.product_id = "P1" /\ arg.quantity = 0
    /\ Len(cart.items) = 1 /\ cart.items[1].product_id = "P2"

\* C14: Cart.update_quantity(p, q), for any q including 0, on a cart with no
\* line with product id p fails with ItemNotFound and leaves the cart
\* unchanged: same lines, same quantities, same subtotal, same updated_at.
C14_UpdateQuantityUnknownProduct ==
    [][(/\ agg = "cart" /\ op' = "update_quantity"
        /\ Cart_find_product(cart.items, arg'.product_id) = 0)
          => /\ res' = "ItemNotFound"
             /\ cart'.items = cart.items
             /\ cart'.subtotal = cart.subtotal
             /\ cart'.updated_at = cart.updated_at]_vars

\* quantity zero asked for a product the non-empty cart does not hold, at a
\* moment when the clock has moved past the cart's stamp
C14_Witness ==
    /\ agg = "cart" /\ op = "update_quantity" /\ res = "ItemNotFound"
    /\ arg.product_id = "P2" /\ arg.quantity = 0
    /\ Len(cart.items) = 2 /\ cart.updated_at < MaxClock

\* C15: Cart.remove_item(p) on a cart with no line with product id p fails
\* with ItemNotFound and leaves lines, subtotal and updated_at unchanged; on a
\* cart with at least one such line it succeeds, afterwards no line has
\* product id p, the other lines are kept unchanged in order, and the subtotal
\* is recomputed.
C15_RemoveItem ==
    [][(agg = "cart" /\ op' = "remove_item")
          => IF Cart_find_product(cart.items, arg'.product_id) = 0
             THEN /\ res' = "ItemNotFound"
                  /\ cart'.items = cart.items
                  /\ cart'.subtotal = cart.subtotal
                  /\ cart'.updated_at = cart.updated_at
             ELSE /\ res' = "Ok"
                  /\ \A i \in DOMAIN cart'.items :
                         cart'.items[i].product_id # arg'.product_id
                  /\ cart'.items =
                         SelectSeq(cart.items, LAMBDA x : x.product_id # arg'.product_id)
                  /\ cart'.subtotal =
                         Money_new(SumLinesIn(cart'.items, cart.currency), cart.currency)]_vars

\* a successful removal that leaves a line of another product behind
C15_Witness ==
    /\ agg = "cart" /\ op = "remove_item" /\ res = "Ok"
    /\ arg.product_id = "P1"
    /\ Len(cart.items) = 1 /\ cart.items[1].product_id = "P2"

\* C16: for every line item of a Cart and of an Order, the line total that
\* enters the subtotal equals that line's unit price multiplied by its
\* quantity; no line total exists that differs from unit price x quantity.
C16_LineTotalsDerived ==
    /\ agg = "cart" =>
           \A i \in DOMAIN cart.items :
              CartItem_line_total(cart.items[i]) =
                 Money_new(cart.items[i].unit_price.amount * cart.items[i].quantity,
                           cart.items[i].unit_price.currency)
    /\ agg = "order" =>
           \A i \in DOMAIN order.items :
              order.items[i].total =
                 Money_new(order.items[i].unit_price.amount * order.items[i].quantity,
                           order.items[i].unit_price.currency)

\* C17: publish() on a Product whose name is empty fails with MissingName and
\* leaves the status unchanged; on a Product with a non-empty name it succeeds
\* and sets the status to Active from every prior status (Draft, Active,
\* Archived), raising no event.
C17_Publish ==
    [][(agg = "product" /\ op' = "publish")
          => IF product.name = ""
             THEN /\ res' = "MissingName"
                  /\ product'.status = product.status
             ELSE /\ product.status \in {"Draft", "Active", "Archived"}
                  /\ res' = "Ok"
                  /\ product'.status = "Active"
                  /\ product'.events = product.events]_vars

\* published with nothing in the buffer: the Created event was drained
\* before and publish added none
C17_Witness ==
    /\ agg = "product" /\ op = "publish" /\ res = "Ok"
    /\ product.name # "" /\ product.status = "Active" /\ product.events = <<>>

\* C18: every add_inventory(qty) appends exactly one InventoryAdded event
\* carrying the product id and a quantity equal to the requested qty, and sets
\* inventory to min(old inventory + qty, u32 maximum); the call never fails.
C18_AddInventory ==
    [][(agg = "product" /\ op' = "add_inventory")
          => /\ res' = "Ok"
             /\ product'.events =
                    Append(product.events,
                           ProductEvent_InventoryAdded(product.id, arg'.qty))
             /\ product'.inventory =
                    (IF product.inventory + arg'.qty < MaxU32
                     THEN product.inventory + arg'.qty ELSE MaxU32)]_vars

\* a request that overshoots the maximum: the event still says what was asked
C18_Witness ==
    /\ agg = "product" /\ op = "add_inventory" /\ res = "Ok"
    /\ arg.qty = MaxU32 /\ product.inventory = MaxU32
    /\ product.events = <<ProductEvent_InventoryAdded(product.id, 1),
                          ProductEvent_InventoryAdded(product.id, MaxU32)>>

\* C19: every mutating operation of Cart, Product and Order completes with
\* success or a typed failure for all inputs, quantities ranging over the
\* whole u32 range: no call aborts and no quantity silently wraps, in
\* particular when Cart.add_item merges two lines whose quantities add up to
\* more than the u32 maximum.
C19_NoAbortNoWrap ==
    [][/\ res' # "Panic"
       /\ (agg = "cart" /\ op' = "add_item")
             => \A i \in DOMAIN cart.items :
                   cart'.items[i].quantity >= cart.items[i].quantity]_vars

\* C20: for all Money values a and b, if their currencies are equal a.add(b)
\* succeeds with a Money of amount a.amount + b.amount in that currency; if
\* they differ it fails with CurrencyMismatch; in both cases a and b are
\* unchanged.
C20_MoneyAdd ==
    [][(agg = "money" /\ op' = "add")
          => /\ arg' = arg
             /\ IF arg.a.currency = arg.b.currency
                THEN /\ res' = "Ok"
                     /\ ret' = [ok |-> TRUE,
                                val |-> [amount |-> arg.a.amount + arg.b.amount,
                                         currency |-> arg.a.currency]]
                ELSE /\ res' = "CurrencyMismatch"
                     /\ ret' = [ok |-> FALSE, err |-> "CurrencyMismatch"]]_vars

\* a negative and a positive amount of one currency added
C20_Witness ==
    /\ agg = "money" /\ op = "add" /\ res = "Ok"
    /\ arg.a.amount < 0 /\ arg.b.amount = MaxAmount
    /\ ret.val = Money_new(MaxAmount - 1, arg.a.currency)

\* C21: for all u32 values v and n, Quantity(v).subtract(n) returns nothing
\* when n > v and Quantity(v - n) otherwise (n = v gives zero);
\* Quantity(v).add(n) returns Quantity(min(v + n, u32 maximum)) and never
\* overflows; neither operation changes the receiver.
C21_QuantityArithmetic ==
    [][(agg = "quantity" /\ op' \in {"add", "subtract"})
          => /\ arg' = arg
             /\ IF op' = "subtract"
                THEN ret' = (IF arg.n > arg.v
                             THEN [some |-> FALSE]
                             ELSE [some |-> TRUE, val |-> arg.v - arg.n])
                ELSE /\ ret'.val \in U32
                     /\ ret'.val = (IF arg.v + arg.n < MaxU32
                                    THEN arg.v + arg.n ELSE MaxU32)]_vars

\* everything taken away: the result is zero, not nothing
C21_Witness ==
    /\ agg = "quantity" /\ op = "subtract"
    /\ arg.v = MaxU32 /\ arg.n = MaxU32
    /\ ret = [some |-> TRUE, val |-> 0]

\* C22: for every raw input string, Sku::new either fails or returns a Sku
\* whose text is the input trimmed and upper-cased, non-empty and at most 50
\* characters long; it fails with Empty exactly when the input is empty or
\* whitespace-only, and with TooLong exactly when the trimmed input has more
\* than 50 characters.
C22_SkuNew ==
    [][(agg = "sku" /\ op' = "new")
          => LET raw == arg.value
                 trimmed == str_trim(raw)
             IN  /\ res' \in {"Ok", "Empty", "TooLong"}
                 /\ res' = "Ok" =>
                        /\ ret'.val = str_to_uppercase(trimmed)
                        /\ ret'.val # <<>>
                        /\ Len(ret'.val) <= MaxSkuLen
                 /\ res' = "Empty" <=> \A i \in DOMAIN raw : char_is_whitespace(raw[i])
                 /\ res' = "TooLong" <=> Len(trimmed) > MaxSkuLen]_vars

\* C23: mark_paid(), ship() and deliver() on an Order succeed from every
\* status (Pending, Cancelled and Delivered included) and with zero line
\* items: mark_paid sets payment to Paid and status to Processing, ship sets
\* status to Shipped and fulfillment to Fulfilled, deliver sets status to
\* Delivered; each leaves the sub-statuses it does not name unchanged.
C23_UnconditionalTransitions ==
    [][(agg = "order" /\ op' \in {"mark_paid", "ship", "deliver"})
          => /\ res' = "Ok"
             /\ op' = "mark_paid" =>
                    /\ order'.payment = "Paid" /\ order'.status = "Processing"
                    /\ order'.fulfillment = order.fulfillment
             /\ op' = "ship" =>
                    /\ order'.status = "Shipped" /\ order'.fulfillment = "Fulfilled"
                    /\ order'.payment = order.payment
             /\ op' = "deliver" =>
                    /\ order'.status = "Delivered"
                    /\ order'.payment = order.payment
                    /\ order'.fulfillment = order.fulfillment]_vars

\* shipped once more after delivery, never paid, never given a line
C23_Witness ==
    /\ agg = "order" /\ op = "ship" /\ res = "Ok"
    /\ was_delivered /\ order.status = "Shipped"
    /\ order.items = <<>> /\ order.payment = "Pending"

\* C24 as stated: Order.add_item(item) always appends (the number of lines
\* grows by one even when a line with the same product id exists), is
\* accepted in every status, and afterwards subtotal equals the sum of the
\* total fields of all line items in the order.
C24_AddItemAppendsSumOfAll ==
    [][(agg = "order" /\ op' = "add_item")
          => /\ res' = "Ok"
             /\ order'.items = Append(order.items, arg')
             /\ order'.status = order.status
             /\ order'.subtotal.amount = SumAllTotals(order'.items)]_vars

\* C24 as amended: Order.add_item(item) always appends, in every status and
\* whatever lines exist, and afterwards subtotal is in the order's currency
\* and equals the sum of the total fields of the line items whose total is in
\* that currency; a total in another currency adds nothing.
C24_AddItemAppendsSumOfOwnCurrency ==
    [][(agg = "order" /\ op' = "add_item")
          => /\ res' = "Ok"
             /\ order'.items = Append(order.items, arg')
             /\ order'.status = order.status
             /\ order'.subtotal =
                    Money_new(SumLineTotals(order'.items, order.subtotal.currency),
                              order.subtotal.currency)]_vars

\* a cancelled order is given a second line of the same product; a line in
\* another currency is among its lines
C24_Witness ==
    /\ agg = "order" /\ op = "add_item" /\ order.status = "Cancelled"
    /\ Len(order.items) = 2
    /\ order.items[1].product_id = order.items[2].product_id
    /\ order.items[2].total.currency # order.subtotal.currency

\* C25: Cart.update_quantity(p, q) with q > 0 on a cart that has a line with
\* product id p succeeds, sets the quantity of exactly one line (the first
\* line in cart order whose product id is p) to exactly q rather than old + q,
\* keeps the number of lines the same, and leaves every other line unchanged,
\* other variants of product p included.
C25_UpdateQuantityReplacesFirst ==
    [][(/\ agg = "cart" /\ op' = "update_quantity" /\ arg'.quantity > 0
        /\ Cart_find_product(cart.items, arg'.product_id) # 0)
          => LET first == CHOOSE i \in DOMAIN cart.items :
                             /\ cart.items[i].product_id = arg'.product_id
                             /\ \A j \in 1..(i - 1) :
                                    cart.items[j].product_id # arg'.product_id
             IN  /\ res' = "Ok"
                 /\ Len(cart'.items) = Len(cart.items)
                 /\ cart'.items[first] = [cart.items[first] EXCEPT !.quantity = arg'.quantity]
                 /\ \A k \in DOMAIN cart.items :
                        k # first => cart'.items[k] = cart.items[k]]_vars

\* two variants of one product: the first got the new quantity, the second
\* kept its own
C25_Witness ==
    /\ agg = "cart" /\ op = "update_quantity" /\ res = "Ok"
    /\ arg.product_id = "P1" /\ arg.quantity = MaxU32
    /\ Len(cart.items) >= 2
    /\ cart.items[1].product_id = "P1" /\ cart.items[1].quantity = MaxU32
    /\ cart.items[2].product_id = "P1" /\ cart.items[2].quantity = 1

\* C26: a Cart's subtotal is always in the currency the cart was created
\* with, and a line whose unit price is in a different currency contributes
\* nothing to it: add_item of such a line still succeeds and stores the line,
\* and subtotal equals the sum of unit price x quantity over only the lines
\* priced in the cart's currency.
C26_ForeignLinesAddNothing ==
    [][agg = "cart"
          => /\ cart'.currency = cart.currency
             /\ cart'.subtotal.currency = cart.currency
             /\ cart'.subtotal.amount = SumLinesIn(cart'.items, cart.currency)
             /\ (op' = "add_item" /\ arg'.unit_price.currency # cart.currency)
                   => /\ res' = "Ok"
                      /\ \E i \in DOMAIN cart'.items :
                            /\ cart'.items[i].product_id = arg'.product_id
                            /\ cart'.items[i].variant_id = arg'.variant_id
                            /\ cart'.items[i].unit_price = arg'.unit_price
                      /\ cart'.subtotal.amount =
                            SumLinesIn(cart.items, cart.currency)]_vars

\* C27: in every reachable state of a Cart, no two lines share the same
\* (product id, variant id) pair.
C27_NoDuplicateLines ==
    agg = "cart" =>
        \A i, j \in DOMAIN cart.items :
            (/\ cart.items[i].product_id = cart.items[j].product_id
             /\ cart.items[i].variant_id = cart.items[j].variant_id) => i = j

\* the same item added twice: one line
C27_Witness ==
    /\ agg = "cart" /\ op = "add_item" /\ res = "Ok"
    /\ Len(cart.items) = 1 /\ cart.items[1].quantity = 2
    /\ arg.quantity = 1

\* C28: in every reachable state of an Order, status Processing implies
\* payment Paid and status Shipped implies fulfillment Fulfilled; moreover
\* payment, once Paid, and fulfillment, once Fulfilled, never change again
\* under any sequence of operations, cancel included.
C28_SubStatusesOnlyAdvance ==
    /\ [](agg = "order" =>
            /\ order.status = "Processing" => order.payment = "Paid"
            /\ order.status = "Shipped" => order.fulfillment = "Fulfilled")
    /\ [][agg = "order" =>
            /\ order.payment = "Paid" => order'.payment = "Paid"
            /\ order.fulfillment = "Fulfilled" => order'.fulfillment = "Fulfilled"]_vars

\* a paid and shipped order was cancelled: both sub-statuses stand
C28_Witness ==
    /\ agg = "order" /\ op = "cancel" /\ res = "Ok"
    /\ order.status = "Cancelled"
    /\ order.payment = "Paid" /\ order.fulfillment = "Fulfilled"

\* C29: the pending event buffer of an aggregate grows only through
\* Product::create (one Created event), Product::add_inventory (one
\* InventoryAdded), a successful Order::confirm (one Confirmed) and a
\* successful Order::cancel (one Cancelled); every other operation
\* (Order::create, Order::add_item, mark_paid, ship, deliver, publish,
\* archive, update_price, remove_inventory) and every failed operation leaves
\* the buffer unchanged.
C29_BufferGrowsOnlyByFourOperations ==
    /\ [](op = "create" =>
            /\ agg = "product" =>
                   Buffer = <<ProductEvent_Created(product.id, product.sku)>>
            /\ agg = "order" => Buffer = <<>>)
    /\ [][LET grown == Len(Buffer') = Len(Buffer) + 1
                        /\ SubSeq(Buffer', 1, Len(Buffer)) = Buffer
              last == Buffer'[Len(Buffer')]
          IN  IF agg = "product" /\ op' = "add_inventory"
              THEN grown /\ last.kind = "Product" /\ last.type = "InventoryAdded"
              ELSE IF agg = "order" /\ op' = "confirm" /\ res' = "Ok"
              THEN grown /\ last.kind = "Order" /\ last.type = "Confirmed"
              ELSE IF agg = "order" /\ op' = "cancel" /\ res' = "Ok"
              THEN grown /\ last.kind = "Order" /\ last.type = "Cancelled"
              ELSE IF op' = "take_events"
              THEN Len(Buffer') <= Len(Buffer)
              ELSE Buffer' = Buffer]_vars

\* a refused removal with two events waiting: both are still there
C29_Witness ==
    /\ agg = "product" /\ op = "remove_inventory" /\ res = "InsufficientInventory"
    /\ Len(product.events) = 2
    /\ product.events[1].type = "Created"

====
